---- MODULE Spec2Model ----
(***************************************************************************)
(* Reviewer recommender: the text segmenter (src/src/parse_pdf.py), the    *)
(* corpus builder (src/src/embed.py) and the similarity engine             *)
(* (src/src/similarity.py).                                                *)
(*                                                                         *)
(* Text.  A Python string is a sequence of pieces [a |-> atom, n |-> k].   *)
(* An atom is a fixed character string: a whitespace character ("NL" is    *)
(* "\n", "SP" is " "), one of the words the code searches for, or "w", a   *)
(* word holding none of them.  A piece with atom "w" and n = k is the run  *)
(* "w w ... w" of k words separated by single spaces; every other piece    *)
(* has n = 1.  Adjacent non-whitespace pieces are adjacent characters, so  *)
(* they belong to the same whitespace-delimited token.  Indices into a     *)
(* text are Python's (0-based); s[:k] is SubSeq(s, 1, k).                  *)
(*                                                                         *)
(* Optional values (None) are records [some |-> BOOLEAN, v |-> value].     *)
(*                                                                         *)
(* Scores.  Cosine similarities are exact fixed-point numbers in units of  *)
(* 1/ScoreScale; the vectors are chosen with integer norms so that the     *)
(* division is exact.  Floating-point rounding is not modelled.            *)
(***************************************************************************)
EXTENDS Integers, Sequences, FiniteSets, TLC

VARIABLES
    pc,                 \* which operation ran last
    pdf,                \* parse: the document behind `path`
    texts,              \* parse: locals and return value of extract_multivector_text
    dataset,            \* build: the files matching dataset_dir.glob('*/*.pdf')
    pdf_files,          \* build: sorted(list(dataset_dir.glob('*/*.pdf')))
    database_records,   \* build: the records appended so far
    build_log,          \* build: per processed file, what happened to it
    database,           \* query: the database argument
    query_best_vector,  \* query
    query_full_vector,  \* query
    top_k,              \* query
    scores,             \* query: score_A, score_B, final_scores
    result              \* query: outcome and the returned rows

vars == <<pc, pdf, texts, dataset, pdf_files, database_records, build_log,
          database, query_best_vector, query_full_vector, top_k, scores, result>>

parseVars == <<pdf, texts>>
buildVars == <<dataset, pdf_files, database_records, build_log>>
queryVars == <<database, query_best_vector, query_full_vector, top_k, scores, result>>

-----------------------------------------------------------------------------
(* Bounds of the model *)

\* segments per page of a document given to the segmenter
MaxSegs == 3
\* segments per page of a corpus paper
MaxCorpusSegs == 2

-----------------------------------------------------------------------------
(* Generic helpers *)

Max(a, b) == IF a >= b THEN a ELSE b

SetMax(S) == CHOOSE x \in S : \A y \in S : y <= x

SetMin(S) == CHOOSE x \in S : \A y \in S : x <= y

None == [some |-> FALSE, v |-> <<>>]

Some(x) == [some |-> TRUE, v |-> x]

-----------------------------------------------------------------------------
(* Text *)

NL == "NL"

SP == "SP"

P(atom) == [a |-> atom, n |-> 1]

W(k) == [a |-> "w", n |-> k]

IsSpace(p) == p.a \in {NL, SP}

\* str.lower() on one atom
LowerAtom(atom) ==
    CASE atom = "References" -> "references"
      [] atom = "Abstract" -> "abstract"
      [] OTHER -> atom

\* str.lower()
Lower(s) == [i \in 1..Len(s) |-> [s[i] EXCEPT !.a = LowerAtom(@)]]

\* s[from:]
SliceFrom(s, from) == SubSeq(s, from + 1, Len(s))

\* s[from:to]
Slice(s, from, to) == SubSeq(s, from + 1, to)

\* the literal `pat` (a sequence of atoms) occurs in s at 0-based index i
MatchAt(s, i, pat) ==
    /\ i + Len(pat) <= Len(s)
    /\ \A k \in 1..Len(pat) : s[i + k].a = pat[k]

\* str.rfind(pat): the highest index of an occurrence, or -1
rfind(s, pat) ==
    LET M == {i \in 0..(Len(s) - 1) : MatchAt(s, i, pat)}
    IN  IF M = {} THEN -1 ELSE SetMax(M)

\* re.search of an alternation of literals: the leftmost match start, or -1
re_search(pats, s) ==
    LET M == {i \in 0..(Len(s) - 1) : \E pat \in pats : MatchAt(s, i, pat)}
    IN  IF M = {} THEN -1 ELSE SetMin(M)

\* the lookbehind (?<!in\s) fails at i: "in" and one whitespace character precede
PrecededByIn(s, i) == i >= 2 /\ s[i - 1].a = "in" /\ IsSpace(s[i])

\* re.search(r'(?<!in\s)abstract', s)
re_search_abstract(s) ==
    LET M == {i \in 0..(Len(s) - 1) : MatchAt(s, i, <<"abstract">>) /\ ~PrecededByIn(s, i)}
    IN  IF M = {} THEN -1 ELSE SetMin(M)

\* piece i of s follows a non-whitespace piece directly: it continues that token
Glued(s, i) == i > 1 /\ ~IsSpace(s[i - 1])

RECURSIVE CountFrom(_, _)
CountFrom(s, i) ==
    IF i > Len(s) THEN 0
    ELSE IF IsSpace(s[i]) THEN CountFrom(s, i + 1)
    ELSE (IF Glued(s, i) THEN s[i].n - 1 ELSE s[i].n) + CountFrom(s, i + 1)

\* len(s.split())
TokenCount(s) == CountFrom(s, 1)

\* s.strip() == ""
IsBlank(s) == \A i \in 1..Len(s) : IsSpace(s[i])

RECURSIVE JoinFrom(_, _, _, _)
JoinFrom(s, i, r, out) ==
    IF i > Len(s) THEN out
    ELSE IF IsSpace(s[i]) THEN JoinFrom(s, i + 1, r, out)
    ELSE IF Glued(s, i)
         THEN IF r >= s[i].n - 1
              THEN JoinFrom(s, i + 1, r - (s[i].n - 1), out \o <<s[i]>>)
              ELSE out \o <<[s[i] EXCEPT !.n = r + 1]>>
    ELSE IF r = 0 THEN out
    ELSE LET sep == IF out = <<>> THEN <<>> ELSE <<P(SP)>>
         IN  IF r >= s[i].n
             THEN JoinFrom(s, i + 1, r - s[i].n, out \o sep \o <<s[i]>>)
             ELSE out \o sep \o <<[s[i] EXCEPT !.n = r]>>

\* " ".join(s.split()[:k])
JoinFirst(s, k) == JoinFrom(s, 1, k, <<>>)

-----------------------------------------------------------------------------
(* src/src/parse_pdf.py *)

clean_full_text(text) ==
    LET text_lower == Lower(text)
        ref_pos == rfind(text_lower, <<NL, "references">>)
        bib_pos == rfind(text_lower, <<NL, "bibliography">>)
        split_pos == Max(ref_pos, bib_pos)
    IN  IF split_pos # -1 THEN SubSeq(text, 1, split_pos) ELSE text

AbstractEndWords == 500

IntroEndWords == 1000

MinBestWords == 100

AbstractEndPats == {<<"introduction">>, <<"keywords">>, <<NL, "1.">>}

IntroEndPats == {<<"methods">>, <<"related", SP, "work">>, <<"background">>, <<NL, "2.">>}

\* the abstract part appended to best_text (lines 57-70)
AbstractPart(full_text) ==
    LET full_text_lower == Lower(full_text)
        abstract_start == re_search_abstract(full_text_lower)
        abstract_end_rel == re_search(AbstractEndPats, SliceFrom(full_text_lower, abstract_start))
    IN  IF abstract_start = -1 THEN <<>>
        ELSE IF abstract_end_rel # -1
             THEN Slice(full_text, abstract_start, abstract_start + abstract_end_rel)
             ELSE JoinFirst(SliceFrom(full_text, abstract_start), AbstractEndWords)

\* the introduction part appended to best_text (lines 73-86)
IntroPart(full_text) ==
    LET full_text_lower == Lower(full_text)
        intro_start == re_search({<<"introduction">>}, full_text_lower)
        intro_end_rel == re_search(IntroEndPats, SliceFrom(full_text_lower, intro_start))
    IN  IF intro_start = -1 THEN <<>>
        ELSE IF intro_end_rel # -1
             THEN <<P(NL)>> \o Slice(full_text, intro_start, intro_start + intro_end_rel)
             ELSE <<P(NL)>> \o JoinFirst(SliceFrom(full_text, intro_start), IntroEndWords)

\* FinalCheck with the comparison off by one (<= 100 instead of < 100)
FinalCheckOffByOne(best_text) ==
    IF TokenCount(best_text) <= MinBestWords THEN None ELSE Some(best_text)

\* the final check of best_text (lines 90-91)
FinalCheck(best_text) ==
    IF TokenCount(best_text) < MinBestWords THEN None ELSE Some(best_text)

\* fitz.open(path) raises for this document
Unreadable == <<<<P("unreadable")>>>>

\* the loop over the pages (lines 37-39): page.get_text() + "\n" for each page
RECURSIVE PagesText(_)
PagesText(doc) ==
    IF doc = <<>> THEN <<>> ELSE Head(doc) \o <<P(NL)>> \o PagesText(Tail(doc))

\* extract_multivector_text(path): the locals full_text and best_text (before the
\* final check), whether fitz raised, and the returned best_text and full_text
extract_multivector_text(doc) ==
    IF doc = Unreadable
    THEN [raised |-> TRUE, raw |-> <<>>, assembled |-> <<>>,
          best_text |-> None, full_text |-> None]
    ELSE LET full_text == PagesText(doc)
             best == AbstractPart(full_text) \o IntroPart(full_text)
         IN  IF IsBlank(full_text)
             THEN [raised |-> FALSE, raw |-> full_text, assembled |-> <<>>,
                   best_text |-> None, full_text |-> None]
             ELSE [raised |-> FALSE, raw |-> full_text, assembled |-> best,
                   best_text |-> FinalCheck(best),
                   full_text |-> Some(clean_full_text(full_text))]

-----------------------------------------------------------------------------
(* Documents *)

\* a run of k words, each preceded by one space
R(k) == <<P(SP), W(k)>>

\* the building blocks of a page's text
Segs ==
    { <<P(NL)>>, <<P("References")>>, <<P("bibliography")>>,
      <<P("Abstract")>>, <<P("in"), P(SP)>>, <<P("introduction")>>,
      <<P("keywords")>>, <<P("methods")>>, <<P(NL), P("2.")>>,
      R(1), R(97), R(98), R(99) }

RECURSIVE PagesOf(_)
PagesOf(m) ==
    IF m = 0 THEN {<<>>}
    ELSE LET Q == PagesOf(m - 1) IN Q \cup {q \o g : q \in Q, g \in Segs}

\* a PDF: no page at all, one page, or a cover page without text and one page
DocsOf(m) ==
    {<<>>} \cup {<<p>> : p \in PagesOf(m)} \cup {<<<<>>, p>> : p \in PagesOf(m)}

ParseDocs == DocsOf(MaxSegs) \cup {Unreadable}

CorpusDocs == DocsOf(MaxCorpusSegs) \cup {Unreadable}

-----------------------------------------------------------------------------
(* Embeddings *)

\* st_model.get_sentence_embedding_dimension(), scaled down
EmbDim == 2

Vec(x, y) == [i \in 1..EmbDim |-> IF i = 1 THEN x ELSE IF i = 2 THEN y ELSE 0]

\* np.zeros(embedding_dim)
Zeros == [i \in 1..EmbDim |-> 0]

\* model.encode(text): some deterministic function of the text
Encode(text) == IF TokenCount(text) % 2 = 0 THEN Vec(1, 0) ELSE Vec(3, 4)

\* Python truth value of an optional string
Truthy(opt) == opt.some /\ opt.v # <<>>

-----------------------------------------------------------------------------
(* src/src/embed.py *)

AuthorOrder == <<"alice", "bob", "carol">>

StemOrder == <<"p1", "p2">>

Authors == {AuthorOrder[i] : i \in 1..Len(AuthorOrder)}

Rank(order, x) == CHOOSE i \in 1..Len(order) : order[i] = x

\* the papers that may lie under dataset_dir
Paths == { [author |-> "alice", stem |-> "p1"], [author |-> "alice", stem |-> "p2"],
           [author |-> "bob", stem |-> "p1"] }

\* Path.__lt__: by folder name, then by file name
PathLess(p, q) ==
    \/ Rank(AuthorOrder, p.author) < Rank(AuthorOrder, q.author)
    \/ /\ p.author = q.author
       /\ Rank(StemOrder, p.stem) < Rank(StemOrder, q.stem)

\* the files without the call of sorted(): in some other order (here the reverse)
RECURSIVE unsorted(_)
unsorted(S) ==
    IF S = {} THEN <<>>
    ELSE LET m == CHOOSE p \in S : \A q \in S \ {p} : PathLess(q, p)
         IN  <<m>> \o unsorted(S \ {m})

\* sorted(list(dataset_dir.glob('*/*.pdf')))
RECURSIVE sorted(_)
sorted(S) ==
    IF S = {} THEN <<>>
    ELSE LET m == CHOOSE p \in S : \A q \in S \ {p} : PathLess(p, q)
         IN  <<m>> \o sorted(S \ {m})

\* extract_multivector_text on every corpus document, computed once
ExtractTable == [d \in CorpusDocs |-> extract_multivector_text(d)]

\* EmbedIfTruthy with model.encode(text or "") for every text
EmbedAlways(opt) == Some(Encode(IF opt.some THEN opt.v ELSE <<>>))

\* steps 2 and 3 of the loop body: embed a text when it is truthy
EmbedIfTruthy(opt) == IF Truthy(opt) THEN Some(Encode(opt.v)) ELSE None

\* step 4 of the loop body: the record appended for pdf_path
MakeRecord(pdf_path, t) ==
    [author |-> pdf_path.author,
     paper |-> <<pdf_path.author, pdf_path.stem>>,
     best_text_embedding |-> EmbedIfTruthy(t.best_text),
     full_text_embedding |-> EmbedIfTruthy(t.full_text)]

\* what one iteration did, kept beside the record
LogEntry(t) ==
    [raised |-> t.raised,
     has_text |-> ~t.raised /\ ~IsBlank(t.raw),
     encode_calls |-> (IF Truthy(t.best_text) THEN 1 ELSE 0)
                      + (IF Truthy(t.full_text) THEN 1 ELSE 0)]

\* lines 20-25: enumerate the papers in sorted order; return when there is none
BuildStart ==
    /\ pc = "build_start"
    /\ pdf_files' = sorted(dataset)
    /\ pc' = IF pdf_files' = <<>> THEN "build_no_files" ELSE "build_loop"
    /\ UNCHANGED <<dataset, database_records, build_log, parseVars, queryVars>>

\* lines 36-59: one iteration of the loop, over the next file
BuildStep ==
    /\ pc = "build_loop"
    /\ Len(database_records) < Len(pdf_files)
    /\ \E d \in CorpusDocs :
         LET pdf_path == pdf_files[Len(database_records) + 1]
             t == ExtractTable[d]
         IN  /\ database_records' = Append(database_records, MakeRecord(pdf_path, t))
             /\ build_log' = Append(build_log, LogEntry(t))
    /\ UNCHANGED <<pc, dataset, pdf_files, parseVars, queryVars>>

\* lines 61-66: the loop is over; pickle the records
BuildSave ==
    /\ pc = "build_loop"
    /\ Len(database_records) = Len(pdf_files)
    /\ pc' = "build_saved"
    /\ UNCHANGED <<parseVars, buildVars, queryVars>>

-----------------------------------------------------------------------------
(* src/src/similarity.py *)

\* records in a database given to find_similar_authors
MaxRecords == 3

\* one unit of a score is 1/ScoreScale; the norms of the vectors divide it
ScoreScale == 5 * 5

RECURSIVE Factorial(_)
Factorial(k) == IF k <= 1 THEN 1 ELSE k * Factorial(k - 1)

\* one unit of a mean is 1/(ScoreScale * MeanScale): counts up to MaxRecords divide it
MeanScale == Factorial(MaxRecords)

RECURSIVE DotFrom(_, _, _)
DotFrom(x, y, i) == IF i > Len(x) THEN 0 ELSE x[i] * y[i] + DotFrom(x, y, i + 1)

Dot(x, y) == DotFrom(x, y, 1)

\* the L2 norm of a row
Norm(x) == LET d == Dot(x, x) IN CHOOSE r \in 0..d : r * r = d

\* sklearn normalize: a row of norm 0 is divided by 1
HandleZero(norm) == IF norm = 0 THEN 1 ELSE norm

\* sklearn cosine_similarity of two rows: the dot product of the normalized rows
Cosine(x, y) ==
    (ScoreScale * Dot(x, y)) \div (HandleZero(Norm(x)) * HandleZero(Norm(y)))

\* lines 33-41: the embedding, or np.zeros(embedding_dim) when it is None
OrZeros(embedding) == IF embedding.some THEN embedding.v ELSE Zeros

\* line 48: score_A, one per record
ScoreA(q, db) == [i \in 1..Len(db) |-> Cosine(q, OrZeros(db[i].best_text_embedding))]

\* line 51: score_B, one per record
ScoreB(q, db) == [i \in 1..Len(db) |-> Cosine(q, OrZeros(db[i].full_text_embedding))]

\* Fuse with np.minimum in place of np.maximum
FuseMinimum(sa, sb) == [i \in 1..Len(sa) |-> IF sa[i] <= sb[i] THEN sa[i] ELSE sb[i]]

\* line 55: np.maximum(score_A, score_B)
Fuse(sa, sb) == [i \in 1..Len(sa) |-> Max(sa[i], sb[i])]

\* lines 48-55: the two channel scores and the fused score of every record
Scores(qb, qf, db) ==
    LET sa == ScoreA(qb, db)
        sb == ScoreB(qf, db)
    IN  [score_A |-> sa, score_B |-> sb, final_scores |-> Fuse(sa, sb)]

RECURSIVE SumOver(_, _)
SumOver(f, S) ==
    IF S = {} THEN 0 ELSE LET i == CHOOSE j \in S : TRUE IN f[i] + SumOver(f, S \ {i})

\* the row indices of an author's papers in df
RowsOf(db, author) == {i \in 1..Len(db) : db[i].author = author}

\* AuthorRow over the author's papers that have an embedding only
AuthorRowSkipDegraded(db, final_scores, author) ==
    LET I == {i \in RowsOf(db, author) :
                db[i].best_text_embedding.some \/ db[i].full_text_embedding.some}
    IN  [author |-> author,
         mean |-> IF I = {} THEN 0
                  ELSE (SumOver(final_scores, I) * MeanScale) \div Cardinality(I),
         count |-> Cardinality(I),
         max |-> SetMax({final_scores[i] : i \in RowsOf(db, author)})]

\* lines 64-66: one row per author of df, with mean, count and max
AuthorRow(db, final_scores, author) ==
    LET I == RowsOf(db, author)
    IN  [author |-> author,
         mean |-> (SumOver(final_scores, I) * MeanScale) \div Cardinality(I),
         count |-> Cardinality(I),
         max |-> SetMax({final_scores[i] : i \in I})]

\* groupby('author'): the group keys in sorted order
RECURSIVE GroupKeys(_, _)
GroupKeys(db, k) ==
    IF k > Len(AuthorOrder) THEN <<>>
    ELSE (IF RowsOf(db, AuthorOrder[k]) # {} THEN <<AuthorOrder[k]>> ELSE <<>>)
         \o GroupKeys(db, k + 1)

\* author_scores after the merge: the rows in group-key order
Aggregate(db, final_scores) ==
    LET keys == GroupKeys(db, 1)
    IN  [k \in 1..Len(keys) |-> AuthorRow(db, final_scores, keys[k])]

\* SortedOrders with ascending=True
SortedOrdersAscending(rows) ==
    LET n == Len(rows)
    IN  {f \in [1..n -> 1..n] :
            /\ \A i, j \in 1..n : i # j => f[i] # f[j]
            /\ \A i \in 1..n : i < n => rows[f[i]].max <= rows[f[i + 1]].max}

\* sort_values(by='max', ascending=False) with the default (unstable) quicksort:
\* the orders of the rows it may return
SortedOrders(rows) ==
    LET n == Len(rows)
    IN  {f \in [1..n -> 1..n] :
            /\ \A i, j \in 1..n : i # j => f[i] # f[j]
            /\ \A i \in 1..n : i < n => rows[f[i]].max >= rows[f[i + 1]].max}

\* DataFrame.head(n): the first n rows; for a negative n, all but the last |n| rows
head(rows, n) ==
    IF n >= 0 THEN SubSeq(rows, 1, IF n <= Len(rows) THEN n ELSE Len(rows))
    ELSE SubSeq(rows, 1, Len(rows) + n)

\* the embeddings a database record may hold
EmbPairs ==
    { [best |-> None, full |-> None],
      [best |-> None, full |-> Some(Vec(1, 0))],
      [best |-> Some(Vec(0, 1)), full |-> Some(Vec(0, -1))] }

DbRecords ==
    { [author |-> a, paper |-> <<a, "p1">>,
       best_text_embedding |-> e.best, full_text_embedding |-> e.full] :
      a \in Authors, e \in EmbPairs }

Databases == UNION {[1..n -> DbRecords] : n \in 0..MaxRecords}

\* (query_best_vector, query_full_vector)
Queries ==
    { <<Zeros, Zeros>>, <<Vec(3, 4), Vec(1, 0)>>, <<Vec(3, 4), Vec(3, 4)>>,
      <<Vec(0, -1), Vec(0, 1)>> }

TopKs == (0 - 2)..(Len(AuthorOrder) + 1)

\* cosine_similarity's check_array rejects np.array([]), the matrix of no records
MatrixRejected(db) == Len(db) = 0

NoScores == [score_A |-> <<>>, score_B |-> <<>>, final_scores |-> <<>>]

\* find_similar_authors(query_best_vector, query_full_vector, st_model, database, top_k)
find_similar_authors ==
    /\ pc = "query_start"
    /\ pc' = "query_done"
    /\ \E q \in Queries :
         /\ query_best_vector' = q[1]
         /\ query_full_vector' = q[2]
         /\ IF MatrixRejected(database)
            THEN /\ scores' = NoScores
                 /\ result' = [outcome |-> "ValueError", rows |-> <<>>]
                 /\ top_k' \in TopKs
            ELSE \* each value is computed once and bound, then the rows are ordered and cut
                 \E sc \in {Scores(q[1], q[2], database)} :
                   \E rows \in {Aggregate(database, sc.final_scores)} :
                     /\ scores' = sc
                     /\ \E ordered \in {[i \in 1..Len(rows) |-> rows[f[i]]] :
                                            f \in SortedOrders(rows)} :
                          \E k \in TopKs :
                            /\ top_k' = k
                            /\ result' = [outcome |-> "returned", rows |-> head(ordered, k)]
    /\ UNCHANGED <<parseVars, buildVars, database>>

-----------------------------------------------------------------------------
(* parse_pdf.py run on one PDF *)

NotRun == [raised |-> FALSE, raw |-> <<>>, assembled |-> <<>>,
           best_text |-> None, full_text |-> None]

ParsePdf ==
    /\ pc = "parse_start"
    /\ pc' = "parse_done"
    /\ texts' = extract_multivector_text(pdf)
    /\ UNCHANGED <<pdf, buildVars, queryVars>>

-----------------------------------------------------------------------------
(* Inputs and specifications *)

IdleParse == pdf = <<>> /\ texts = NotRun

IdleBuild ==
    dataset = {} /\ pdf_files = <<>> /\ database_records = <<>> /\ build_log = <<>>

IdleQuery ==
    /\ database = <<>>
    /\ query_best_vector = Zeros
    /\ query_full_vector = Zeros
    /\ top_k = 0
    /\ scores = NoScores
    /\ result = [outcome |-> "none", rows |-> <<>>]

InitParse ==
    /\ pc = "parse_start"
    /\ pdf \in ParseDocs
    /\ texts = NotRun
    /\ IdleBuild
    /\ IdleQuery

InitBuild ==
    /\ pc = "build_start"
    /\ dataset \in SUBSET Paths
    /\ pdf_files = <<>>
    /\ database_records = <<>>
    /\ build_log = <<>>
    /\ IdleParse
    /\ IdleQuery

InitQuery ==
    /\ pc = "query_start"
    /\ database \in Databases
    /\ query_best_vector = Zeros
    /\ query_full_vector = Zeros
    /\ top_k = 0
    /\ scores = NoScores
    /\ result = [outcome |-> "none", rows |-> <<>>]
    /\ IdleParse
    /\ IdleBuild

NextParse == ParsePdf

NextBuild == BuildStart \/ BuildStep \/ BuildSave

NextQuery == find_similar_authors

SpecParse == InitParse /\ [][NextParse]_vars

SpecBuild == InitBuild /\ [][NextBuild]_vars

SpecQuery == InitQuery /\ [][NextQuery]_vars

-----------------------------------------------------------------------------
(* Properties of the text segmenter, under SpecParse *)

\* piece i (1-based) of raw is a "References" heading: it starts a line, is a word
\* of its own, and text follows it
ReferencesHeaderAt(raw, i) ==
    /\ LowerAtom(raw[i].a) = "references"
    /\ i = 1 \/ raw[i - 1].a = NL
    /\ i < Len(raw) /\ IsSpace(raw[i + 1])
    /\ \E j \in (i + 1)..Len(raw) : ~IsSpace(raw[j])

IsPrefix(s, t) == Len(s) <= Len(t) /\ s = SubSeq(t, 1, Len(s))

\* C2: whenever the raw text holds "References" as a line header followed by
\* citation text, the returned full_text is a prefix of the raw text and ends
\* before that header, wherever the header line sits and whatever follows it.
C2_FullTextExcludesReferences ==
    (pc = "parse_done" /\ texts.full_text.some) =>
        \A i \in 1..Len(texts.raw) :
            ReferencesHeaderAt(texts.raw, i) =>
                /\ IsPrefix(texts.full_text.v, texts.raw)
                /\ Len(texts.full_text.v) < i

HasSectionMarker(raw) ==
    \E i \in 1..Len(raw) : LowerAtom(raw[i].a) \in {"abstract", "introduction"}

\* the one-page document "Abstract w ... w" with k words after the marker
AbstractThenWords(k) == << <<P("Abstract")>> \o R(k) >>

\* C9: best_text is None exactly when the assembled abstract+introduction excerpt
\* has fewer than 100 whitespace-delimited tokens (99 gives None, 100 gives the
\* excerpt); a text without an abstract or introduction marker gives None.
C9_BestTextAbsentBelow100Tokens ==
    pc = "parse_done" =>
        /\ ~texts.best_text.some <=> TokenCount(texts.assembled) < 100
        /\ texts.best_text.some => texts.best_text.v = texts.assembled
        /\ ~HasSectionMarker(texts.raw) => ~texts.best_text.some
        /\ pdf = AbstractThenWords(98) => ~texts.best_text.some
        /\ pdf = AbstractThenWords(99) =>
               texts.best_text.some /\ TokenCount(texts.best_text.v) = 100

\* C9 witness: an excerpt made of an abstract part and an introduction part with
\* exactly 100 tokens was kept
C9_Witness ==
    /\ pc = "parse_done"
    /\ texts.best_text.some
    /\ TokenCount(texts.assembled) = 100
    /\ AbstractPart(texts.raw) # <<>>
    /\ IntroPart(texts.raw) # <<>>

-----------------------------------------------------------------------------
(* Properties of the corpus builder, under SpecBuild *)

\* C3: every record of a paper whose raw text was not empty or whitespace-only
\* holds at least one embedding.
C3_TextImpliesSomeEmbedding ==
    \A i \in 1..Len(database_records) :
        build_log[i].has_text =>
            \/ database_records[i].best_text_embedding.some
            \/ database_records[i].full_text_embedding.some

C4_State ==
    /\ Len(database_records) = Len(build_log)
    /\ Len(database_records) <= Len(pdf_files)
    /\ pc # "build_start" =>
         /\ {pdf_files[i] : i \in 1..Len(pdf_files)} = dataset
         /\ Len(pdf_files) = Cardinality(dataset)
    /\ \A i, j \in 1..Len(pdf_files) : i < j => PathLess(pdf_files[i], pdf_files[j])
    /\ Cardinality(dataset) >= 1 => pc \in {"build_start", "build_loop", "build_saved"}
    /\ pc = "build_loop" => ENABLED (BuildStep \/ BuildSave)
    /\ pc = "build_saved" => Len(database_records) = Cardinality(dataset)
    /\ \A i \in 1..Len(database_records) :
         /\ database_records[i].author = pdf_files[i].author
         /\ database_records[i].paper = <<pdf_files[i].author, pdf_files[i].stem>>
         /\ build_log[i].raised =>
              /\ database_records[i].best_text_embedding = None
              /\ database_records[i].full_text_embedding = None
              /\ build_log[i].encode_calls = 0

C4_Step ==
    /\ dataset' = dataset
    /\ Len(database_records') >= Len(database_records)
    /\ SubSeq(database_records', 1, Len(database_records)) = database_records

\* C4: over N >= 1 files, whichever extractions fail, the loop completes with N
\* records, the i-th for the i-th file in sorted path order; a paper whose
\* extraction failed is recorded with both embeddings None and is never embedded,
\* and no step changes a record appended earlier.
C4_FailuresStayLocal == [](C4_State) /\ [][C4_Step]_vars

\* C4 witness: the build ended over two or more files, one whose extraction
\* failed and one that was embedded
C4_Witness ==
    /\ pc = "build_saved"
    /\ Len(database_records) >= 2
    /\ \E i, j \in 1..Len(database_records) :
         /\ build_log[i].raised
         /\ ~build_log[j].raised
         /\ database_records[j].full_text_embedding.some

-----------------------------------------------------------------------------
(* Properties of the similarity engine, under SpecQuery *)

DbAuthors(db) == {db[i].author : i \in 1..Len(db)}

RowAuthors(rows) == {rows[i].author : i \in 1..Len(rows)}

\* the best fused score among an author's records
BestOf(db, fs, author) ==
    CHOOSE m \in {fs[i] : i \in 1..Len(db)} :
        /\ \E i \in 1..Len(db) : db[i].author = author /\ fs[i] = m
        /\ \A i \in 1..Len(db) : db[i].author = author => fs[i] <= m

Returned == pc = "query_done" /\ result.outcome = "returned"

\* C1: for a non-empty database and top_k >= 1 the call returns (never raises)
\* exactly min(top_k, number of authors) rows, one per author, by non-increasing
\* max, and every returned max is >= the max of every author left out.
C1_TopKRows ==
    (pc = "query_done" /\ Len(database) >= 1 /\ top_k >= 1) =>
        LET rows == result.rows
            n == Cardinality(DbAuthors(database))
            fs == scores.final_scores
        IN  /\ result.outcome = "returned"
            /\ Len(rows) = IF top_k <= n THEN top_k ELSE n
            /\ RowAuthors(rows) \subseteq DbAuthors(database)
            /\ \A i, j \in 1..Len(rows) : i # j => rows[i].author # rows[j].author
            /\ \A i \in 1..Len(rows) : rows[i].max = BestOf(database, fs, rows[i].author)
            /\ \A i, j \in 1..Len(rows) : i < j => rows[i].max >= rows[j].max
            /\ \A i \in 1..Len(rows) :
                 \A a \in DbAuthors(database) \ RowAuthors(rows) :
                     rows[i].max >= BestOf(database, fs, a)

\* C1 witness: three authors with three different best scores, two of them returned
C1_Witness ==
    /\ Returned
    /\ top_k = 2
    /\ Cardinality(DbAuthors(database)) = 3
    /\ Len(result.rows) = 2
    /\ result.rows[1].max > result.rows[2].max
    /\ \E a \in DbAuthors(database) \ RowAuthors(result.rows) :
         BestOf(database, scores.final_scores, a) < result.rows[2].max

\* C5: the fused score of every record is the larger of its two channel scores;
\* the score of a channel whose embedding is None is exactly 0, for a zero query
\* vector too; a record with both embeddings None has fused score 0.
C5_FusedIsMaxOfChannels ==
    Returned =>
        /\ Len(scores.score_A) = Len(database)
        /\ Len(scores.score_B) = Len(database)
        /\ Len(scores.final_scores) = Len(database)
        /\ \A i \in 1..Len(database) :
             LET a == scores.score_A[i]
                 b == scores.score_B[i]
                 f == scores.final_scores[i]
             IN  /\ f \in {a, b}
                 /\ f >= a
                 /\ f >= b
                 /\ ~database[i].best_text_embedding.some => a = 0
                 /\ ~database[i].full_text_embedding.some => b = 0
                 /\ (~database[i].best_text_embedding.some
                       /\ ~database[i].full_text_embedding.some) => f = 0

\* C5 witness: one record without best_text_embedding that scores on channel B, and
\* one record with both embeddings whose channel scores differ
C5_Witness ==
    /\ Returned
    /\ \E i, j \in 1..Len(database) :
         /\ ~database[i].best_text_embedding.some
         /\ scores.score_B[i] > 0
         /\ scores.final_scores[i] = scores.score_B[i]
         /\ database[j].best_text_embedding.some
         /\ scores.score_A[j] > scores.score_B[j]
         /\ scores.final_scores[j] = scores.score_A[j]

RECURSIVE SumCounts(_, _)
SumCounts(rows, i) == IF i > Len(rows) THEN 0 ELSE rows[i].count + SumCounts(rows, i + 1)

RECURSIVE SumScores(_, _, _, _)
SumScores(db, fs, author, i) ==
    IF i > Len(db) THEN 0
    ELSE (IF db[i].author = author THEN fs[i] ELSE 0) + SumScores(db, fs, author, i + 1)

\* C6: with top_k >= the number of authors, there is exactly one row per author of
\* the database; its count is the number of the author's records (those without
\* embeddings included), its max their largest fused score, its mean the sum of
\* their fused scores divided by count; the counts add up to the number of records.
C6_AuthorAggregates ==
    (Returned /\ Len(database) >= 1 /\ top_k >= Cardinality(DbAuthors(database))) =>
        LET rows == result.rows
            fs == scores.final_scores
        IN  /\ RowAuthors(rows) = DbAuthors(database)
            /\ Len(rows) = Cardinality(DbAuthors(database))
            /\ \A k \in 1..Len(rows) :
                 /\ rows[k].count =
                      Cardinality({i \in 1..Len(database) : database[i].author = rows[k].author})
                 /\ rows[k].max = BestOf(database, fs, rows[k].author)
                 /\ rows[k].mean * rows[k].count =
                      MeanScale * SumScores(database, fs, rows[k].author, 1)
            /\ SumCounts(rows, 1) = Len(database)

\* C6 witness: an author with a scoring paper and a paper without embeddings, so
\* that the mean lies below the max
C6_Witness ==
    /\ Returned
    /\ top_k >= Cardinality(DbAuthors(database))
    /\ \E k \in 1..Len(result.rows) :
         /\ result.rows[k].count >= 2
         /\ result.rows[k].max > 0
         /\ result.rows[k].mean < MeanScale * result.rows[k].max
         /\ \E i \in 1..Len(database) :
              /\ database[i].author = result.rows[k].author
              /\ ~database[i].best_text_embedding.some
              /\ ~database[i].full_text_embedding.some

\* C7: called with an empty database, the call returns an empty result and does
\* not end in an error.
C7_EmptyDatabaseEmptyResult ==
    (pc = "query_done" /\ Len(database) = 0) =>
        result.outcome = "returned" /\ result.rows = <<>>

\* C8: for a non-empty database and top_k <= 0, the call returns zero rows.
C8_NonPositiveTopKEmpty ==
    (pc = "query_done" /\ Len(database) >= 1 /\ top_k <= 0) =>
        result.outcome = "returned" /\ result.rows = <<>>

FirstIndex(db, author) == SetMin({i \in 1..Len(db) : db[i].author = author})

AllEqual(fs) == \A i, j \in 1..Len(fs) : fs[i] = fs[j]

\* C10: when every fused score is equal (both query vectors zero, say), the
\* returned authors appear in the order of their first occurrence in the database.
C10_TiesInFirstOccurrenceOrder ==
    (Returned /\ AllEqual(scores.final_scores)) =>
        \A i, j \in 1..Len(result.rows) :
            i < j => FirstIndex(database, result.rows[i].author)
                       < FirstIndex(database, result.rows[j].author)

====
